---- MODULE Spec2Model ----
(***************************************************************************)
(* A model of the maze runner (src/main.py): class Maze (generation by     *)
(* frontier carving, entrance carving, text-file save/load, recursive     *)
(* path search) and class Menu (the command loop that owns one maze).     *)
(*                                                                         *)
(* Python values are modelled as follows.                                  *)
(*   None            the empty tuple <<>>                                  *)
(*   an optional v   <<>> (None) or <<v>>                                  *)
(*   a coordinate    <<y, x>>, row first, 0-based as in the source         *)
(*   a list of lists a sequence of sequences; Tile() does the 0-based      *)
(*                   indexing                                              *)
(*   an exception    its class name in err, with pc = "crashed" when it    *)
(*                   leaves Menu.run uncaught                              *)
(***************************************************************************)
EXTENDS Integers, Sequences, FiniteSets, Bags, TLC

VARIABLES
    maze,       \* Menu.maze: None or <<the Maze object>>
    instance,   \* create_maze's local `instance` while it is being built
    nodes,      \* generate's local frontier set `nodes`
    stack,      \* the active solve_maze calls, innermost last
    fs,         \* the directory: file name -> None or <<lines of the file>>
    pc,         \* where Menu.run is
    err,        \* the exception that ended Menu.run ("" when none)
    out,        \* what the last command printed (the menu text of
                \* Menu.display, printed before every command, is left out)
    ncmd,       \* commands read so far
    ncreate,    \* create commands read so far
    seed,       \* generate's (rand_y, rand_x), kept for inspection
    opened,     \* bag of the candidate cells generate newly opened
    calls       \* bag of the coordinates solve_maze was entered with

vars == <<maze, instance, nodes, stack, fs, pc, err, out, ncmd, ncreate,
          seed, opened, calls>>

----------------------------------------------------------------------------
(* Bounds of the model.                                                    *)

\* create_maze is called with size_x, size_y in 1..MaxSize
MaxSize == 5
\* commands one Menu.run session reads
MaxCmds == 5
\* create commands one Menu.run session reads
MaxCreates == 1
\* the files present when a loading session starts: every LoadRows x LoadCols
\* grid of the digits 0 and 1 (and the malformed samples of BadFiles)
LoadRows == 4
LoadCols == 3

Sizes == 1..MaxSize
Names == {"a"}

----------------------------------------------------------------------------
(* Python helpers.                                                         *)

None == <<>>
Some(v) == <<v>>

\* random.randrange(start, stop, step): the values it can return; empty
\* means it raises ValueError
randrange(start, stop, step) ==
    {v \in start..(stop - 1) : (v - start) % step = 0}

\* tiles[y][x] for y, x >= 0 (no index of the source is ever negative: every
\* index is a seed >= 1, a midpoint of two such, or guarded by 0 < ...)
HasTile(tiles, y, x) ==
    /\ y >= 0 /\ y < Len(tiles)
    /\ x >= 0 /\ x < Len(tiles[y + 1])
Tile(tiles, y, x) == tiles[y + 1][x + 1]
SetTile(tiles, y, x, v) == [tiles EXCEPT ![y + 1][x + 1] = v]

RECURSIVE SetTiles(_, _, _)
\* for y, x in cells: tiles[y][x] = v
SetTiles(tiles, cells, v) ==
    IF cells = <<>> THEN tiles
    ELSE SetTiles(SetTile(tiles, Head(cells)[1], Head(cells)[2], v), Tail(cells), v)

\* Maze.__init__ (tiles is a non-empty list of rows)
Maze(tiles) ==
    [tiles        |-> tiles,
     size_x       |-> Len(tiles[1]),
     size_y       |-> Len(tiles),
     entrances    |-> <<>>,
     solved       |-> FALSE,
     path         |-> None,
     path_support |-> {}]

\* [[1 for _ in range(size_x)] for _ in range(size_y)]
AllWalls(size_x, size_y) == [y \in 1..size_y |-> [x \in 1..size_x |-> 1]]

----------------------------------------------------------------------------
(* Maze.__str__                                                            *)

\* paint's tuple ('  ', full block twice, '//'); "##" stands for the blocks
Glyphs == <<"  ", "##", "//">>
PaintRaises(tiles) ==
    \E y \in 1..Len(tiles) : \E x \in 1..Len(tiles[y]) : tiles[y][x] >= Len(Glyphs)
paint(tile) == Glyphs[tile + 1]
Str(m) == [y \in 1..Len(m.tiles) |->
              [x \in 1..Len(m.tiles[y]) |-> paint(m.tiles[y][x])]]

----------------------------------------------------------------------------
(* Maze.find_nodes                                                         *)

Axis(solve) ==
    IF solve THEN {<<-1, 0>>, <<1, 0>>, <<0, -1>>, <<0, 1>>}
             ELSE {<<-2, 0>>, <<2, 0>>, <<0, -2>>, <<0, 2>>}
Offset(solve) == IF solve THEN 0 ELSE 1

\* InBorder with the column test of generation used for solving too
InBorderStrict(m, node, solve) ==
    {d \in Axis(solve) :
        /\ 0 < node[1] + d[1] /\ node[1] + d[1] < m.size_y - 1
        /\ 0 < node[2] + d[2] /\ node[2] + d[2] < m.size_x - 1}

\* the directions that pass the two range tests of the `if`
InBorder(m, node, solve) ==
    {d \in Axis(solve) :
        /\ 0 < node[1] + d[1] /\ node[1] + d[1] < m.size_y - 1
        /\ 0 < node[2] + d[2] /\ node[2] + d[2] < m.size_x - Offset(solve)}

\* self.tiles[node[0] + i][node[1] + j] raises IndexError (a short row of a
\* loaded grid)
find_nodes_raises(m, node, solve) ==
    \E d \in InBorder(m, node, solve) :
        ~HasTile(m.tiles, node[1] + d[1], node[2] + d[2])

find_nodes(m, node, solve) ==
    {IF solve
        THEN <<node[1] + d[1], node[2] + d[2]>>
        ELSE <<node[1] + d[1], node[2] + d[2],
               node[1] + (d[1] \div 2), node[2] + (d[2] \div 2)>> :
     d \in {e \in InBorder(m, node, solve) :
               Tile(m.tiles, node[1] + e[1], node[2] + e[2]) = Offset(solve)}}

----------------------------------------------------------------------------
(* Maze.find_entrances, Maze.save_to_file, Maze.from_file                  *)

\* [(i, x) for i, row in enumerate(tiles) if row[x] == 0], from row i - 1 on
RECURSIVE RowsWith(_, _, _)
RowsWith(tiles, x, i) ==
    IF i > Len(tiles) THEN <<>>
    ELSE (IF tiles[i][x + 1] = 0 THEN <<(<<i - 1, x>>)>> ELSE <<>>)
         \o RowsWith(tiles, x, i + 1)

\* row[0] or row[self.size_x - 1] raises IndexError
find_entrances_raises(m) ==
    \E y \in 1..Len(m.tiles) : Len(m.tiles[y]) = 0 \/ Len(m.tiles[y]) < m.size_x

find_entrances(m) ==
    [m EXCEPT !.entrances = RowsWith(m.tiles, 0, 1) \o RowsWith(m.tiles, m.size_x - 1, 1)]

\* str(tile) for the one-digit tiles a grid can hold
Digits == <<"0", "1", "2", "3", "4", "5", "6", "7", "8", "9">>
StrOf(tile) == Digits[tile + 1]
IsDigit(ch) == \E d \in 1..Len(Digits) : Digits[d] = ch
\* int(ch) for a digit
IntOf(ch) == (CHOOSE d \in 1..Len(Digits) : Digits[d] = ch) - 1

\* the lines save_to_file writes (each without its "\n")
FileOf(m) == [y \in 1..Len(m.tiles) |->
                 [x \in 1..Len(m.tiles[y]) |-> StrOf(m.tiles[y][x])]]

\* [list(map(int, [a for a in line.strip()])) for line in file]
ParseRaises(lines) ==
    \E y \in 1..Len(lines) : \E x \in 1..Len(lines[y]) : ~IsDigit(lines[y][x])
Parse(lines) == [y \in 1..Len(lines) |->
                    [x \in 1..Len(lines[y]) |-> IntOf(lines[y][x])]]

\* the exception from_file raises on the file `file` (None or <<lines>>), ""
\* when it returns
from_file_raises(file) ==
    IF file = None THEN "FileNotFoundError"
    ELSE IF ParseRaises(file[1]) THEN "ValueError"
    ELSE IF Len(file[1]) = 0 THEN "IndexError"
    ELSE IF find_entrances_raises(Maze(Parse(file[1]))) THEN "IndexError"
    ELSE ""

from_file(file) == find_entrances(Maze(Parse(file[1])))

----------------------------------------------------------------------------
(* Maze.generate and Maze.create_entrances                                 *)

\* the two randrange calls of generate: rand_y is drawn with size_x and
\* rand_x with size_y, as the source has it
SeedRows(m) == randrange(1, m.size_x - 1, 2)
SeedCols(m) == randrange(1, m.size_y - 1, 2)

\* IsWall without the test: a stale frontier entry is carved again
IsWallAlways(m, n) == TRUE

\* if self.tiles[y][x] == 1
IsWall(m, n) == Tile(m.tiles, n[1], n[2]) = 1

\* Carve without the wall between the candidate and its origin
CarveCandidateOnly(m, n) ==
    [m EXCEPT !.tiles = SetTile(@, n[1], n[2], 0)]

\* self.tiles[y][x] = 0; self.tiles[y1][x1] = 0
Carve(m, n) ==
    [m EXCEPT !.tiles = SetTile(SetTile(@, n[1], n[2], 0), n[3], n[4], 0)]

\* the rows create_entrances draws from, for both entrances
EntranceRows(m) == randrange(1, m.size_y - 1, 2)

\* one pass of `for y, x in self.entrances`. i stays 1, so the while loop
\* looks at one cell only: it opens tiles[y][x + 1] (tiles[y][x - 1] on the
\* right) if that is not open and then breaks on it
Tunnel(tiles, size_x, y, x) ==
    LET t == SetTile(tiles, y, x, 0) IN
    IF x = 0
        THEN (IF x < size_x - 1 THEN SetTile(t, y, x + 1, 0) ELSE t)
    ELSE IF x = size_x - 1
        THEN (IF x > 0 THEN SetTile(t, y, x - 1, 0) ELSE t)
    ELSE t

create_entrances(m, y1, y2) ==
    LET e == <<(<<y1, 0>>), (<<y2, m.size_x - 1>>)>> IN
    [m EXCEPT !.entrances = e,
              !.tiles = Tunnel(Tunnel(@, m.size_x, e[1][1], e[1][2]),
                               m.size_x, e[2][1], e[2][2])]

----------------------------------------------------------------------------
(* Maze.solve_maze and Maze.printable_solved_maze                          *)

\* self.path_support.add(node)
Visit(m, node) == [m EXCEPT !.path_support = @ \cup {node}]

\* the neighbours the for loop of solve_maze will recurse into: the set is
\* built once, before the first recursive call
Unvisited(m, cur) == find_nodes(m, cur, TRUE) \ m.path_support

\* One call solve_maze(node, path) up to its for loop: the Maze after it,
\* the exception it raised ("" when none), the coordinate it examined and
\* the frame of its for loop (None when it returned at `if self.solved`).
solve_maze(m, node, path) ==
    LET m1  == Visit(m, node)
        cur == IF node = None THEN m1.entrances[1] ELSE node
        m2  == IF cur = m1.entrances[2]
                  THEN [m1 EXCEPT !.path = Some(path \o <<cur>>), !.solved = TRUE]
                  ELSE m1
    IN  IF node = None /\ Len(m1.entrances) < 1
            THEN [m |-> m1, err |-> "IndexError", cur |-> None, frame |-> None]
        ELSE IF m1.solved
            THEN [m |-> m1, err |-> "", cur |-> Some(cur), frame |-> None]
        ELSE IF Len(m1.entrances) < 2
            THEN [m |-> m1, err |-> "IndexError", cur |-> Some(cur), frame |-> None]
        ELSE IF find_nodes_raises(m2, cur, TRUE)
            THEN [m |-> m2, err |-> "IndexError", cur |-> Some(cur), frame |-> None]
        ELSE [m |-> m2, err |-> "", cur |-> Some(cur),
              frame |-> Some([node |-> cur, path |-> path,
                              todo |-> Unvisited(m2, cur)])]

\* for y, x in self.path: self.tiles[y][x] = 2
MarkPath(m) == [m EXCEPT !.tiles = SetTiles(@, m.path[1], 2)]

\* the coordinates of a bag of optional coordinates
Logged(bag, c) == IF c = None THEN bag ELSE bag (+) SetToBag({c[1]})

----------------------------------------------------------------------------
(* The state machine.  One Menu.run session: pc = "menu" is the input()    *)
(* of the loop; "generate" and "solve" are inside command 1 and command 5. *)

NoFiles == [n \in Names |-> None]

InitSession ==
    /\ maze = None /\ instance = None /\ nodes = {} /\ stack = <<>>
    /\ pc = "menu" /\ err = "" /\ out = <<>> /\ ncmd = 0 /\ ncreate = 0
    /\ seed = None /\ opened = EmptyBag /\ calls = EmptyBag

Init == InitSession /\ fs = NoFiles

\* an uncaught exception leaves Menu.run
Crash(e) == pc' = "crashed" /\ err' = e

Command == pc = "menu" /\ ncmd < MaxCmds /\ ncmd' = ncmd + 1

\* command "1", up to the first pass of generate's while loop:
\* Maze.create_maze(size_x, size_y) builds the walls and generate draws its
\* seed. (Menu.run passes its one size twice; create_maze takes both.)
create_maze(size_x, size_y) ==
    /\ Command
    /\ ncreate < MaxCreates /\ ncreate' = ncreate + 1
    /\ LET m == Maze(AllWalls(size_x, size_y)) IN
       IF SeedRows(m) = {} \/ SeedCols(m) = {}
          THEN /\ Crash("ValueError")
               /\ UNCHANGED <<instance, nodes, seed>>
          ELSE \E rand_y \in SeedRows(m), rand_x \in SeedCols(m) :
                  /\ instance' = Some(m)
                  /\ nodes' = {<<rand_y, rand_x, rand_y, rand_x>>}
                  /\ seed' = Some(<<rand_y, rand_x>>)
                  /\ pc' = "generate"
                  /\ err' = err
    /\ opened' = EmptyBag
    /\ UNCHANGED <<maze, stack, fs, out, calls>>

\* one pass of `while nodes`: nodes.pop() returns any element
generate_pop ==
    /\ pc = "generate" /\ nodes # {}
    /\ \E n \in nodes :
          LET m == instance[1] IN
          IF ~HasTile(m.tiles, n[1], n[2])
             THEN /\ Crash("IndexError")
                  /\ nodes' = nodes \ {n}
                  /\ UNCHANGED <<instance, opened>>
          ELSE IF IsWall(m, n)
             THEN /\ instance' = Some(Carve(m, n))
                  /\ nodes' = (nodes \ {n}) \cup find_nodes(Carve(m, n), <<n[1], n[2]>>, FALSE)
                  /\ opened' = opened (+) SetToBag({<<n[1], n[2]>>})
                  /\ UNCHANGED <<pc, err>>
          ELSE /\ nodes' = nodes \ {n}
               /\ UNCHANGED <<instance, opened, pc, err>>
    /\ UNCHANGED <<maze, stack, fs, out, ncmd, ncreate, seed, calls>>

\* generate has returned: create_entrances draws the two rows, create_maze
\* returns, Menu.run stores the maze and prints it
create_maze_return ==
    /\ pc = "generate" /\ nodes = {}
    /\ \E y1 \in EntranceRows(instance[1]), y2 \in EntranceRows(instance[1]) :
          LET m == create_entrances(instance[1], y1, y2) IN
          /\ maze' = Some(m)
          /\ out' = Str(m)
    /\ instance' = None
    /\ pc' = "menu"
    /\ UNCHANGED <<nodes, stack, fs, err, ncmd, ncreate, seed, opened, calls>>

\* command "2": Maze.from_file(name); only FileNotFoundError is caught
CmdLoad(name) ==
    /\ Command
    /\ LET e == from_file_raises(fs[name]) IN
       IF e = "FileNotFoundError"
          THEN /\ out' = <<(<<"The file ", name, " does not exist">>)>>
               /\ UNCHANGED <<maze, pc, err>>
       ELSE IF e # ""
          THEN /\ Crash(e)
               /\ UNCHANGED <<maze, out>>
       ELSE /\ maze' = Some(from_file(fs[name]))
            /\ UNCHANGED <<pc, err, out>>
    /\ UNCHANGED <<instance, nodes, stack, fs, ncreate, seed, opened, calls>>

\* any of "3", "4", "5" or an unknown command while there is no maze (with a
\* maze an unknown command changes nothing and prints nothing)
CmdIncorrect ==
    /\ Command
    /\ maze = None
    /\ out' = <<(<<"Incorrect option. Please try again">>)>>
    /\ UNCHANGED <<maze, instance, nodes, stack, fs, pc, err, ncreate, seed, opened, calls>>

\* command "3": self.maze.save_to_file(name)
CmdSave(name) ==
    /\ Command
    /\ maze # None
    /\ fs' = [fs EXCEPT ![name] = Some(FileOf(maze[1]))]
    /\ UNCHANGED <<maze, instance, nodes, stack, pc, err, out, ncreate, seed, opened, calls>>

\* command "4": print(self.maze)
CmdDisplay ==
    /\ Command
    /\ maze # None
    /\ IF PaintRaises(maze[1].tiles)
          THEN Crash("IndexError") /\ out' = out
          ELSE out' = Str(maze[1]) /\ UNCHANGED <<pc, err>>
    /\ UNCHANGED <<maze, instance, nodes, stack, fs, ncreate, seed, opened, calls>>

\* command "0"
CmdExit ==
    /\ Command
    /\ pc' = "exited"
    /\ UNCHANGED <<maze, instance, nodes, stack, fs, err, out, ncreate, seed, opened, calls>>

\* the end of printable_solved_maze and of command "5": the path is painted
\* and the maze printed
Finish(m) ==
    IF m.path = None
       THEN /\ Crash("TypeError")
            /\ maze' = Some(m) /\ out' = out
       ELSE /\ maze' = Some(MarkPath(m))
            /\ out' = Str(MarkPath(m))
            /\ pc' = "menu" /\ err' = err

\* command "5": self.maze.printable_solved_maze(), up to the for loop of the
\* outermost solve_maze call (or to the end, for a maze solved before)
printable_solved_maze ==
    /\ Command
    /\ maze # None
    /\ IF maze[1].solved
          THEN /\ Finish(maze[1])
               /\ UNCHANGED <<stack, calls>>
          ELSE LET r == solve_maze(maze[1], None, <<>>) IN
               /\ calls' = Logged(EmptyBag, r.cur)
               /\ IF r.err # ""
                     THEN /\ Crash(r.err)
                          /\ maze' = Some(r.m)
                          /\ stack' = stack
                     ELSE /\ maze' = Some(r.m)
                          /\ stack' = r.frame
                          /\ pc' = "solve" /\ err' = err
               /\ out' = out
    /\ UNCHANGED <<instance, nodes, fs, ncreate, seed, opened>>

\* one pass of the for loop of the innermost call: the recursive call
\* solve_maze(new_node, path + [node]) up to its own for loop
solve_maze_call ==
    /\ pc = "solve" /\ stack # <<>>
    /\ LET top == stack[Len(stack)] IN
       \E new_node \in top.todo :
          LET r    == solve_maze(maze[1], new_node, top.path \o <<top.node>>)
              rest == [stack EXCEPT ![Len(stack)].todo = @ \ {new_node}]
          IN  /\ calls' = Logged(calls, r.cur)
              /\ maze' = Some(r.m)
              /\ IF r.err # ""
                    THEN Crash(r.err) /\ stack' = rest
                    ELSE /\ stack' = rest \o r.frame
                         /\ UNCHANGED <<pc, err>>
    /\ UNCHANGED <<instance, nodes, fs, out, ncmd, ncreate, seed, opened>>

\* the for loop of the innermost call is exhausted: it returns
solve_maze_return ==
    /\ pc = "solve" /\ stack # <<>>
    /\ stack[Len(stack)].todo = {}
    /\ stack' = SubSeq(stack, 1, Len(stack) - 1)
    /\ UNCHANGED <<maze, instance, nodes, fs, pc, err, out, ncmd, ncreate, seed, opened, calls>>

\* the outermost solve_maze call has returned to printable_solved_maze
printable_solved_maze_return ==
    /\ pc = "solve" /\ stack = <<>>
    /\ Finish(maze[1])
    /\ UNCHANGED <<instance, nodes, stack, fs, ncmd, ncreate, seed, opened, calls>>

Create == \E size_x \in Sizes, size_y \in Sizes : create_maze(size_x, size_y)
Load == \E name \in Names : CmdLoad(name)
Save == \E name \in Names : CmdSave(name)

Next ==
    \/ Create
    \/ generate_pop
    \/ create_maze_return
    \/ Load
    \/ Save
    \/ CmdDisplay
    \/ CmdIncorrect
    \/ CmdExit
    \/ printable_solved_maze
    \/ solve_maze_call
    \/ solve_maze_return
    \/ printable_solved_maze_return

Spec == Init /\ [][Next]_vars

\* The session that only creates and solves (no files). Menu.run executes
\* its commands to the end without waiting for anything once read, hence the
\* weak fairness of the steps inside command 5.
Solving ==
    \/ solve_maze_call
    \/ solve_maze_return
    \/ printable_solved_maze_return

NextCreate ==
    \/ Create
    \/ generate_pop
    \/ create_maze_return
    \/ printable_solved_maze
    \/ Solving

SpecCreate == Init /\ [][NextCreate]_vars /\ WF_vars(Solving)

\* The session that starts beside one file and never creates a maze.
Chars == {"0", "1"}
GridFiles == [1..LoadRows -> [1..LoadCols -> Chars]]
BadFiles ==
    { << <<"0", "1", "0">>, <<"1">> >>,                 \* a short row
      << <<"0", "1", "0">>, <<"1", "1", "1", "0">>, <<"0", "1", "0">> >>,
      << <<"0", "a", "0">> >>,                          \* not a digit
      << <<"0", "1", "0">>, <<"1", "1", "1">>, <<"0", "1", "0">> >> }

InitLoad ==
    /\ InitSession
    /\ fs \in [Names -> {Some(f) : f \in GridFiles \cup BadFiles}]

NextLoad ==
    \/ Load
    \/ Save
    \/ CmdDisplay
    \/ CmdIncorrect
    \/ CmdExit
    \/ printable_solved_maze
    \/ Solving

SpecLoad == InitLoad /\ [][NextLoad]_vars

----------------------------------------------------------------------------
(* Vocabulary of the properties.                                           *)

Cells(tiles) ==
    UNION {{<<y - 1, x - 1>> : x \in 1..Len(tiles[y])} : y \in 1..Len(tiles)}
OpenCells(tiles) == {c \in Cells(tiles) : Tile(tiles, c[1], c[2]) = 0}
Abs(i) == IF i < 0 THEN -i ELSE i
Adjacent(a, b) == Abs(a[1] - b[1]) + Abs(a[2] - b[2]) = 1

\* the orthogonally adjacent pairs of O, each counted once
Passages(O) ==
    Cardinality({c \in O : <<c[1], c[2] + 1>> \in O})
    + Cardinality({c \in O : <<c[1] + 1, c[2]>> \in O})

RECURSIVE Component(_, _)
\* the cells of O joined to S by steps between adjacent cells of O
Component(S, O) ==
    LET N == S \cup {c \in O : \E d \in S : Adjacent(c, d)}
    IN  IF N = S THEN S ELSE Component(N, O)

OneComponent(O) == O # {} /\ Component({CHOOSE c \in O : TRUE}, O) = O

Odd(n) == n % 2 = 1
OddSquare(m) == m.size_x = m.size_y /\ Odd(m.size_x) /\ m.size_x >= 3
OddSizes(m) == Odd(m.size_x) /\ m.size_x >= 3 /\ Odd(m.size_y) /\ m.size_y >= 3

\* generate's while loop has ended (create_entrances has not run yet)
GenerateReturned == pc = "generate" /\ nodes = {}

----------------------------------------------------------------------------
(* C1 *)

\* C1: whenever generate() returns on an all-wall grid, whatever the seed and
\* the pop order, the open cells form exactly one connected component and
\* the number of adjacent open pairs is the number of open cells minus one.
C1_PerfectMaze ==
    GenerateReturned =>
        LET O == OpenCells(instance[1].tiles)
        IN  OneComponent(O) /\ Passages(O) = Cardinality(O) - 1

\* generate has returned on a 5 x 5 grid with all four cell centres joined
C1_Witness ==
    /\ GenerateReturned
    /\ instance[1].size_x = 5 /\ instance[1].size_y = 5
    /\ Cardinality(OpenCells(instance[1].tiles)) = 7

----------------------------------------------------------------------------
(* C8 *)

Half(n) == (n - 1) \div 2

\* C8 as stated: on an odd n x n grid the number of open cells after
\* generate() and before create_entrances() is 2*((n-1)/2)^2 + 2*((n-1)/2).
C8_OpenCountAsStated ==
    (GenerateReturned /\ OddSquare(instance[1])) =>
        Cardinality(OpenCells(instance[1].tiles))
            = 2 * Half(instance[1].size_x) * Half(instance[1].size_x)
              + 2 * Half(instance[1].size_x)

\* C8 amended: on an odd n x n grid the number of open cells after
\* generate() and before create_entrances() is 2*((n-1)/2)^2 - 1 (the
\* ((n-1)/2)^2 cell centres and the walls of a spanning tree over them).
C8_OpenCount ==
    (GenerateReturned /\ OddSquare(instance[1])) =>
        Cardinality(OpenCells(instance[1].tiles))
            = 2 * Half(instance[1].size_x) * Half(instance[1].size_x) - 1

\* generate has returned on a 5 x 5 grid
C8_Witness ==
    /\ GenerateReturned
    /\ OddSquare(instance[1]) /\ instance[1].size_x = 5
    /\ BagCardinality(opened) = 4

----------------------------------------------------------------------------
(* C2 *)

\* C2: on every maze of create_maze(n, n), n odd and >= 3, a started solve
\* ends, whatever the order of the neighbours, back in the menu with
\* solved = true and a path stored.
C2_SolveFindsPath ==
    (pc = "solve" /\ OddSquare(maze[1]))
        ~> (pc = "menu" /\ maze # None /\ maze[1].solved /\ maze[1].path # None)

\* a solve of a 5 x 5 maze has ended with a path through more than one row
C2_Witness ==
    /\ pc = "menu" /\ maze # None
    /\ OddSquare(maze[1]) /\ maze[1].size_x = 5
    /\ maze[1].solved /\ maze[1].path # None
    /\ maze[1].entrances[1][1] # maze[1].entrances[2][1]
    /\ BagCardinality(calls) > 5

----------------------------------------------------------------------------
(* C10 *)

\* C10: for odd width and height >= 3, generate() picks its seed at an odd
\* row inside (0, height-1) and an odd column inside (0, width-1), never
\* indexes outside the grid, and newly opens each interior odd/odd cell at
\* most once.
C10_GenerateInsideGrid ==
    (instance # None /\ OddSizes(instance[1])) =>
        /\ seed[1][1] \in randrange(1, instance[1].size_y - 1, 2)
        /\ seed[1][2] \in randrange(1, instance[1].size_x - 1, 2)
        /\ err # "IndexError"
        /\ \A c \in BagToSet(opened) :
              /\ CopiesIn(c, opened) = 1
              /\ c[1] \in randrange(1, instance[1].size_y - 1, 2)
              /\ c[2] \in randrange(1, instance[1].size_x - 1, 2)

----------------------------------------------------------------------------
(* C5, C6, C7: loading *)

SameGrid(a, b) ==
    /\ a.tiles = b.tiles
    /\ a.size_x = b.size_x /\ a.size_y = b.size_y
    /\ a.entrances = b.entrances

\* C5: for every maze of create_maze, save_to_file followed by from_file of
\* the same name gives a grid of the same width, height and cells and the
\* same two entrances in the same order. (ncmd = 2: the session so far is
\* the create and the save.)
C5_RoundTrip ==
    [][\A name \in Names :
          (/\ ncmd = 2 /\ ncreate = 1 /\ maze # None
           /\ fs[name] = Some(FileOf(maze[1]))
           /\ CmdLoad(name))
          => (pc' = "menu" /\ SameGrid(maze[1], maze'[1]))]_vars

\* C6: after create, solve-and-display, save, load, find_entrances gives the
\* two entrances the maze had before. (ncmd = 3: the session so far is the
\* create, the solve and the save.)
C6_MarkedIsOpen ==
    [][\A name \in Names :
          (/\ ncmd = 3 /\ ncreate = 1 /\ maze # None /\ maze[1].solved
           /\ fs[name] = Some(FileOf(maze[1]))
           /\ CmdLoad(name))
          => (pc' = "menu" /\ maze'[1].entrances = maze[1].entrances)]_vars

\* the rows of a file are of unequal length
Ragged(lines) == \E y \in 1..Len(lines) : Len(lines[y]) # Len(lines[1])
\* no row of the file has "0" at position x (1-based)
NoOpenIn(lines, x) == \A y \in 1..Len(lines) : lines[y][x] # "0"
MissingOrMalformed(file) ==
    \/ file = None
    \/ Len(file[1]) = 0
    \/ Ragged(file[1])
    \/ Len(file[1][1]) = 0
    \/ ParseRaises(file[1])
    \/ NoOpenIn(file[1], 1)
    \/ NoOpenIn(file[1], Len(file[1][1]))

\* C7: a load of a missing or malformed file leaves the session running with
\* the maze (or no maze) it had before.
C7_BadLoadRecoverable ==
    [][\A name \in Names :
          (MissingOrMalformed(fs[name]) /\ CmdLoad(name))
          => (pc' = "menu" /\ maze' = maze)]_vars

----------------------------------------------------------------------------
(* C3, C4, C9: solving a loaded grid *)

\* C3: every stored path runs over open cells from entrances[0] to
\* entrances[1] by single orthogonal steps and repeats no coordinate. (The
\* cells are tested while pc = "solve": command 5 paints them afterwards.)
C3_PathValid ==
    (maze # None /\ maze[1].path # None) =>
        LET p == maze[1].path[1] IN
        /\ p[1] = maze[1].entrances[1]
        /\ p[Len(p)] = maze[1].entrances[2]
        /\ \A i \in 1..(Len(p) - 1) : Adjacent(p[i], p[i + 1])
        /\ \A i, j \in 1..Len(p) : p[i] = p[j] => i = j
        /\ pc = "solve" => \A i \in 1..Len(p) : p[i] \in OpenCells(maze[1].tiles)

\* entrances[1] can be reached from entrances[0] over open cells
Reachable(m) ==
    m.entrances[2] \in Component({m.entrances[1]}, OpenCells(m.tiles))

\* C4: on a (rectangular) grid whose entrances[1] cannot be reached from
\* entrances[0] the solve raises nothing and leaves solved = false, no path
\* and no cell painted.
C4_NoRouteIsNoError ==
    (/\ maze # None /\ ~Ragged(maze[1].tiles)
     /\ Len(maze[1].entrances) >= 2 /\ ~Reachable(maze[1])) =>
        /\ pc # "crashed"
        /\ ~maze[1].solved /\ maze[1].path = None
        /\ \A c \in Cells(maze[1].tiles) : Tile(maze[1].tiles, c[1], c[2]) # 2

\* C9: during one solve no coordinate is examined twice: solve_maze is
\* entered at most once per coordinate. (Stated for the grids whose search
\* starts in column 0, where the start itself cannot be stepped on again.)
C9_EnteredOnce ==
    (maze # None /\ Len(maze[1].entrances) >= 1 /\ maze[1].entrances[1][2] = 0) =>
        \A c \in BagToSet(calls) : CopiesIn(c, calls) <= 1

====
